---- MODULE Spec2Model ----
(***************************************************************************)
(* Model of the JSON-backed movie store (DataManager/json_data_manager.py) *)
(* and of the add_user request handler (app.py).                           *)
(*                                                                         *)
(* Python values that the code converts with str() and int() carry their   *)
(* type: an id is either an int or a str of decimal digits, the latter a   *)
(* sequence of one-character strings.  Floats are held in tenths.          *)
(***************************************************************************)
EXTENDS Integers, Sequences, FiniteSets, TLC

VARIABLES
    file,          \* the list under "users" in the JSON file
    fileComplete,  \* the file holds one whole document
    brokenLen,     \* the length of a file that holds no whole document
    last,          \* the last call that ran alone: arguments, document before, result
    pc,            \* where each request thread is in its call
    call,          \* the call each thread is running
    snapshot,      \* what the thread's _load_data returned
    data,          \* the list the thread hands to _write_data
    ret,           \* the value the thread's call returned
    wrote,         \* the thread's call has written the file
    lastWriter     \* the thread whose json.dump reached the file last

vars == <<file, fileComplete, brokenLen, last, pc, call, snapshot, data, ret, wrote, lastWriter>>
procVars == <<pc, call, snapshot, data, ret, wrote, lastWriter>>

(***************************************************************************)
(* Bounds of the model.                                                    *)
(***************************************************************************)
\* movies in the whole document, and the largest id add_movie may assign
MaxMovies == 2

Procs == {"t1", "t2"}

(***************************************************************************)
(* Python values: int and str, str() and int().                            *)
(***************************************************************************)
IntV(n) == [type |-> "int", i |-> n, s |-> <<>>]
StrV(cs) == [type |-> "str", i |-> 0, s |-> cs]

DigitChars == <<"0", "1", "2", "3", "4", "5", "6", "7", "8", "9">>

RECURSIVE Decimal(_)
Decimal(n) ==
    IF n < 10 THEN <<DigitChars[n + 1]>>
    ELSE Decimal(n \div 10) \o <<DigitChars[(n % 10) + 1]>>

DigitVal(c) == CHOOSE d \in 0..9 : DigitChars[d + 1] = c

RECURSIVE ParseInt(_)
ParseInt(cs) ==
    IF cs = <<>> THEN 0
    ELSE ParseInt(SubSeq(cs, 1, Len(cs) - 1)) * 10 + DigitVal(cs[Len(cs)])

\* float() of a string with one fractional digit, in tenths
ParseFloat(cs) ==
    LET dot == CHOOSE k \in 1..Len(cs) : cs[k] = "."
    IN ParseInt(SubSeq(cs, 1, dot - 1)) * 10 + ParseInt(SubSeq(cs, dot + 1, dot + 1))

str(v) == IF v.type = "str" THEN v ELSE StrV(Decimal(v.i))

int(v) == IF v.type = "int" THEN v.i ELSE ParseInt(v.s)

(***************************************************************************)
(* Return values.                                                          *)
(***************************************************************************)
None == [kind |-> "None"]
StrRet(msg) == [kind |-> "str", val |-> msg]
TupleRet(t) == [kind |-> "tuple", val |-> t]
ListRet(l) == [kind |-> "list", val |-> l]
DictRet(d) == [kind |-> "dict", val |-> d]

ErrUserExists == "User with this name already exists."

(***************************************************************************)
(* Helpers over the loaded list of users.                                  *)
(***************************************************************************)
Max(S) == CHOOSE m \in S : \A k \in S : k <= m

MovieIds(movies) == {movies[j].id : j \in 1..Len(movies)}

\* a variant that numbers by position: len(user['movies'])
max_id_by_count(movies) == Len(movies)

\* max((movie['id'] for movie in user['movies']), default=0)
max_id(movies) == IF movies = <<>> THEN 0 ELSE Max(MovieIds(movies))

\* the first user the loop "for user in data" meets with this user_id
UsersWith(d, uid) == {i \in 1..Len(d) : d[i].user_id = uid}
FirstUser(d, uid) == CHOOSE i \in UsersWith(d, uid) : \A k \in UsersWith(d, uid) : i <= k

\* the first (user, movie) pair the nested loops meet
Positions(d) == UNION {{<<i, j>> : j \in 1..Len(d[i].movies)} : i \in 1..Len(d)}
Matches(d, uid, mid) ==
    {p \in Positions(d) : d[p[1]].user_id = uid /\ d[p[1]].movies[p[2]].id = mid}
Before(p, q) == p[1] < q[1] \/ (p[1] = q[1] /\ p[2] <= q[2])
FirstMatch(d, uid, mid) ==
    CHOOSE p \in Matches(d, uid, mid) : \A q \in Matches(d, uid, mid) : Before(p, q)

\* a variant that keeps the movies whose id is above the target
RECURSIVE FilterAbove(_, _)
FilterAbove(movies, mid) ==
    IF movies = <<>> THEN <<>>
    ELSE IF int(IntV(Head(movies).id)) > mid
         THEN <<Head(movies)>> \o FilterAbove(Tail(movies), mid)
         ELSE FilterAbove(Tail(movies), mid)

RECURSIVE Filter(_, _)
Filter(movies, mid) ==
    IF movies = <<>> THEN <<>>
    ELSE IF int(IntV(Head(movies).id)) # mid
         THEN <<Head(movies)>> \o Filter(Tail(movies), mid)
         ELSE Filter(Tail(movies), mid)

\* a variant that puts the update in the movie's place
UpdateReplacing(movie, updated_movie) == updated_movie

\* dict.update
Update(movie, updated_movie) ==
    [k \in DOMAIN movie \cup DOMAIN updated_movie |->
        IF k \in DOMAIN updated_movie THEN updated_movie[k] ELSE movie[k]]

(***************************************************************************)
(* The methods of JSONDataManager on a loaded document d.  Each yields the *)
(* value returned, the list handed to _write_data, and whether             *)
(* _write_data was called.                                                 *)
(***************************************************************************)
Result(r, d, w) == [ret |-> r, data |-> d, wrote |-> w]

list_all_users(d) == Result(ListRet(d), d, FALSE)

\* a variant that appends and writes before it looks for the name
add_user_writing_first(d, user_name) ==
    LET new_user == [user_id |-> StrV(Decimal(Len(d) + 1)),
                     name |-> user_name,
                     movies |-> <<>>]
    IN IF \E i \in 1..Len(d) : d[i].name = user_name
       THEN Result(StrRet(ErrUserExists), Append(d, new_user), TRUE)
       ELSE Result(TupleRet(<<None, StrRet(user_name)>>), Append(d, new_user), TRUE)

add_user(d, user_name) ==
    IF \E i \in 1..Len(d) : d[i].name = user_name
    THEN Result(StrRet(ErrUserExists), d, FALSE)
    ELSE LET new_user == [user_id |-> StrV(Decimal(Len(d) + 1)),
                          name |-> user_name,
                          movies |-> <<>>]
         IN Result(TupleRet(<<None, StrRet(user_name)>>), Append(d, new_user), TRUE)

get_user_movies(d, user_id) ==
    IF UsersWith(d, user_id) # {}
    THEN Result(ListRet(d[FirstUser(d, user_id)].movies), d, FALSE)
    ELSE Result(ListRet(<<>>), d, FALSE)

rating(movie_details) ==
    IF "imdbRating" \in DOMAIN movie_details /\ movie_details.imdbRating # <<"N", "/", "A">>
    THEN ParseFloat(movie_details.imdbRating)
    ELSE 0

add_movie(d, user_id, movie_details) ==
    IF movie_details.Response = "True"
    THEN LET uid == str(user_id)
         IN IF UsersWith(d, uid) # {}
            THEN LET i == FirstUser(d, uid)
                     movie_data == [name |-> movie_details.Title,
                                    director |-> movie_details.Director,
                                    year |-> ParseInt(movie_details.Year),
                                    rating |-> rating(movie_details),
                                    id |-> max_id(d[i].movies) + 1]
                 IN Result(None, [d EXCEPT ![i].movies = Append(@, movie_data)], TRUE)
            ELSE Result(None, d, TRUE)
    ELSE Result(StrRet(movie_details.Error), d, FALSE)

\* a variant that returns the last movie the loop saw when none matches
get_movie_last_seen(d, user_id, movie_id) ==
    LET uid == str(user_id)
        mid == int(movie_id)
    IN IF Matches(d, uid, mid) # {}
       THEN LET p == FirstMatch(d, uid, mid)
            IN Result(DictRet(d[p[1]].movies[p[2]]), d, FALSE)
       ELSE IF UsersWith(d, uid) # {} /\ d[FirstUser(d, uid)].movies # <<>>
            THEN LET ms == d[FirstUser(d, uid)].movies
                 IN Result(DictRet(ms[Len(ms)]), d, FALSE)
            ELSE Result(None, d, FALSE)

get_movie(d, user_id, movie_id) ==
    LET uid == str(user_id)
        mid == int(movie_id)
    IN IF Matches(d, uid, mid) # {}
       THEN LET p == FirstMatch(d, uid, mid)
            IN Result(DictRet(d[p[1]].movies[p[2]]), d, FALSE)
       ELSE Result(None, d, FALSE)

update_movie(d, user_id, movie_id, updated_movie) ==
    LET uid == str(user_id)
        mid == int(movie_id)
    IN IF Matches(d, uid, mid) # {}
       THEN LET p == FirstMatch(d, uid, mid)
            IN Result(None,
                      [d EXCEPT ![p[1]].movies[p[2]] = Update(@, updated_movie)],
                      TRUE)
       ELSE Result(None, d, FALSE)

delete_movie(d, user_id, movie_id) ==
    LET uid == str(user_id)
        mid == int(movie_id)
    IN IF UsersWith(d, uid) # {}
       THEN LET i == FirstUser(d, uid)
            IN Result(None, [d EXCEPT ![i].movies = Filter(@, mid)], TRUE)
       ELSE Result(None, d, TRUE)

RECURSIVE TotalMovies(_)
TotalMovies(d) == IF d = <<>> THEN 0 ELSE Len(Head(d).movies) + TotalMovies(Tail(d))

(***************************************************************************)
(* Inputs.                                                                 *)
(***************************************************************************)
Names == {"Alice", "Bob"}

\* ids as the routes pass them (str) and as a direct caller may (int)
UserIdArgs == {StrV(Decimal(n)) : n \in 1..Cardinality(Names) + 1} \cup {IntV(1)}

MovieIdArgs == {IntV(n) : n \in 1..MaxMovies + 1} \cup {StrV(Decimal(1))}

\* replies of the OMDb service
Found == [Response |-> "True", Title |-> "Inception", Director |-> "Christopher Nolan",
          Year |-> <<"2", "0", "1", "0">>, imdbRating |-> <<"8", ".", "8">>]
NotFound == [Response |-> "False", Error |-> "Movie not found!"]
Lookups == {Found, NotFound}

\* the dicts handed to update_movie
OnlyRating == [rating |-> 90]
OnlyId == [id |-> 1]
Updates == {OnlyRating, OnlyId}

(***************************************************************************)
(* The file.  _write_data opens it with mode 'w', which empties it, and    *)
(* json.dump then writes the whole document from offset 0; the bytes reach *)
(* the file when it is closed.  A file that is empty, or that holds the    *)
(* tail of a longer document behind a shorter one, is not a document:      *)
(* json.load raises on it.                                                 *)
(***************************************************************************)
RECURSIVE Sum(_, _)
Sum(f, S) == IF S = {} THEN 0 ELSE LET x == CHOOSE y \in S : TRUE IN f[x] + Sum(f, S \ {x})

\* the characters json.dump writes for one value of a movie
ValueLen(k, v) ==
    IF k \in {"id", "year"} THEN Len(Decimal(v))
    ELSE IF k = "rating" THEN Len(Decimal(v \div 10)) + 2
    ELSE Len(v) + 2

\* {"k": v, "k": v}
MovieLen(m) == 2 * Cardinality(DOMAIN m) + Sum([k \in DOMAIN m |-> Len(k) + 4 + ValueLen(k, m[k])], DOMAIN m)

\* [item, item]
ListLen(lens) == IF lens = <<>> THEN 2 ELSE 2 * Len(lens) + Sum(lens, DOMAIN lens)

\* {"user_id": "1", "name": "Alice", "movies": [...]}
UserLen(u) ==
    (Len(u.user_id.s) + 13) + 2 + (Len(u.name) + 10)
        + 2 + 10 + ListLen([j \in 1..Len(u.movies) |-> MovieLen(u.movies[j])]) + 2

\* {"users": [...]}
JsonLen(d) == 10 + ListLen([i \in 1..Len(d) |-> UserLen(d[i])]) + 1

(***************************************************************************)
(* One call at a time: every method runs from its load to its return.      *)
(***************************************************************************)
\* History: the id a delete_movie call removed when it was the highest id of
\* the user's list; the record of a call keeps what the call before it freed.
NothingFreed == [user_id |-> StrV(<<>>), id |-> 0]
Freed(l) ==
    IF /\ l.op = "delete_movie"
       /\ UsersWith(l.before, str(l.user_id)) # {}
       /\ int(l.movie_id) \in MovieIds(l.before[FirstUser(l.before, str(l.user_id))].movies)
       /\ \A k \in MovieIds(l.before[FirstUser(l.before, str(l.user_id))].movies) :
              k <= int(l.movie_id)
    THEN [user_id |-> str(l.user_id), id |-> int(l.movie_id)]
    ELSE NothingFreed

\* the record of a finished call
Record(c, res) ==
    c @@ [before |-> file, res |-> [ret |-> res.ret, wrote |-> res.wrote], freed |-> Freed(last)]

Idle == [op |-> "none"]

Init ==
    /\ file = <<>>
    /\ fileComplete = TRUE
    /\ brokenLen = 0
    /\ last = [op |-> "none", before |-> <<>>, res |-> [ret |-> None, wrote |-> FALSE],
               freed |-> NothingFreed]
    /\ pc = [p \in Procs |-> "idle"]
    /\ call = [p \in Procs |-> Idle]
    /\ data = [p \in Procs |-> <<>>]
    /\ snapshot = [p \in Procs |-> <<>>]
    /\ ret = [p \in Procs |-> None]
    /\ wrote = [p \in Procs |-> FALSE]
    /\ lastWriter = "none"

\* the file after a call that ran alone
Written(res) == IF res.wrote THEN res.data ELSE file

ListAllUsers ==
    \E res \in {list_all_users(file)} :
       /\ file' = Written(res)
       /\ last' = Record([op |-> "list_all_users"], res)
       /\ UNCHANGED <<fileComplete, brokenLen, procVars>>

AddUser ==
    \E user_name \in Names :
        \E res \in {add_user(file, user_name)} :
           /\ file' = Written(res)
               /\ last' = Record([op |-> "add_user", user_name |-> user_name], res)
           /\ UNCHANGED <<fileComplete, brokenLen, procVars>>

GetUserMovies ==
    \E user_id \in UserIdArgs :
        \E res \in {get_user_movies(file, user_id)} :
           /\ file' = Written(res)
               /\ last' = Record([op |-> "get_user_movies", user_id |-> user_id], res)
           /\ UNCHANGED <<fileComplete, brokenLen, procVars>>

\* the document stays within the bounds when add_movie runs on it
Room(d, user_id) ==
    \A i \in UsersWith(d, str(user_id)) :
        TotalMovies(d) < MaxMovies /\ max_id(d[i].movies) < MaxMovies

AddMovie ==
    \E user_id \in UserIdArgs, movie_details \in Lookups :
        \E res \in {add_movie(file, user_id, movie_details)} :
           /\ Room(file, user_id)
           /\ file' = Written(res)
               /\ last' = Record([op |-> "add_movie", user_id |-> user_id,
                              movie_details |-> movie_details], res)
           /\ UNCHANGED <<fileComplete, brokenLen, procVars>>

GetMovie ==
    \E user_id \in UserIdArgs, movie_id \in MovieIdArgs :
        \E res \in {get_movie(file, user_id, movie_id)} :
           /\ file' = Written(res)
               /\ last' = Record([op |-> "get_movie", user_id |-> user_id,
                              movie_id |-> movie_id], res)
           /\ UNCHANGED <<fileComplete, brokenLen, procVars>>

UpdateMovie ==
    \E user_id \in UserIdArgs, movie_id \in MovieIdArgs, updated_movie \in Updates :
        \E res \in {update_movie(file, user_id, movie_id, updated_movie)} :
           /\ file' = Written(res)
               /\ last' = Record([op |-> "update_movie", user_id |-> user_id,
                              movie_id |-> movie_id, updated_movie |-> updated_movie], res)
           /\ UNCHANGED <<fileComplete, brokenLen, procVars>>

DeleteMovie ==
    \E user_id \in UserIdArgs, movie_id \in MovieIdArgs :
        \E res \in {delete_movie(file, user_id, movie_id)} :
           /\ file' = Written(res)
               /\ last' = Record([op |-> "delete_movie", user_id |-> user_id,
                              movie_id |-> movie_id], res)
           /\ UNCHANGED <<fileComplete, brokenLen, procVars>>

(***************************************************************************)
(* The add_user route of app.py: the handler takes add_user's result apart *)
(* as a pair.  Unpacking a str iterates its characters.                    *)
(***************************************************************************)
Render(template, error_message) ==
    [kind |-> "render", template |-> template, error_message |-> error_message]
Redirect(endpoint, user_id) == [kind |-> "redirect", endpoint |-> endpoint, user_id |-> user_id]
Raise(exc) == [kind |-> "raise", exc |-> exc]

\* error_message, user_name = <value>: the number of items the value yields
Items(v) == IF v.kind \in {"tuple", "str", "list"} THEN Len(v.val) ELSE 0

route_add_user(d, method, user_name) ==
    IF method = "POST"
    THEN LET r == add_user(d, user_name)
         IN IF Items(r.ret) # 2
            THEN Result(Raise("ValueError"), r.data, r.wrote)
            ELSE IF r.ret.val[1] # None
                 THEN Result(Render("add_user.html", r.ret.val[1]), r.data, r.wrote)
                 ELSE Result(Redirect("user_movies", r.ret.val[2]), r.data, r.wrote)
    ELSE Result(Render("add_user.html", None), d, FALSE)

RouteAddUser ==
    \E method \in {"GET", "POST"}, user_name \in Names :
        \E res \in {route_add_user(file, method, user_name)} :
           /\ file' = Written(res)
               /\ last' = Record([op |-> "route_add_user", method |-> method,
                              user_name |-> user_name], res)
           /\ UNCHANGED <<fileComplete, brokenLen, procVars>>

Next ==
    \/ ListAllUsers
    \/ AddUser
    \/ GetUserMovies
    \/ AddMovie
    \/ GetMovie
    \/ UpdateMovie
    \/ DeleteMovie
    \/ RouteAddUser

Spec == Init /\ [][Next]_vars

(***************************************************************************)
(* Request threads: the server may run handlers at the same time, and the  *)
(* manager takes no lock.  A call is a lookup (add_movie only), a load,    *)
(* the work on the loaded list, and a write in two steps: open(.., 'w')    *)
(* empties the file, json.dump and the close put the document at offset 0. *)
(***************************************************************************)
ThreadCalls ==
    {[op |-> "add_user", user_name |-> n] : n \in Names}
    \cup {[op |-> "add_movie", user_id |-> IntV(1), movie_details |-> md] : md \in Lookups}
    \cup {[op |-> "delete_movie", user_id |-> IntV(1), movie_id |-> StrV(Decimal(1))]}
    \cup {[op |-> "get_user_movies", user_id |-> StrV(Decimal(1))]}

Run(c, d) ==
    CASE c.op = "add_user" -> add_user(d, c.user_name)
      [] c.op = "add_movie" -> add_movie(d, c.user_id, c.movie_details)
      [] c.op = "delete_movie" -> delete_movie(d, c.user_id, c.movie_id)
      [] c.op = "get_user_movies" -> get_user_movies(d, c.user_id)

\* add_movie asks the service before it loads, and returns its error at once
ReturnsUnloaded(c) == c.op = "add_movie" /\ c.movie_details.Response # "True"

Begin(p) ==
    /\ pc[p] \in {"idle", "done"}
    /\ \E c \in ThreadCalls :
          /\ call' = [call EXCEPT ![p] = c]
          /\ pc' = [pc EXCEPT ![p] = IF ReturnsUnloaded(c) THEN "done" ELSE "load"]
          /\ ret' = [ret EXCEPT ![p] = IF ReturnsUnloaded(c) THEN Run(c, <<>>).ret ELSE None]
    /\ snapshot' = [snapshot EXCEPT ![p] = <<>>]
    /\ data' = [data EXCEPT ![p] = <<>>]
    /\ wrote' = [wrote EXCEPT ![p] = FALSE]
    /\ UNCHANGED <<file, fileComplete, brokenLen, last, lastWriter>>

\* _load_data and the work on the list it returns
Load(p) ==
    /\ pc[p] = "load"
    /\ IF fileComplete
       THEN LET res == Run(call[p], file)
            IN /\ call[p].op = "add_movie" => Room(file, call[p].user_id)
               /\ snapshot' = [snapshot EXCEPT ![p] = file]
               /\ data' = [data EXCEPT ![p] = res.data]
               /\ ret' = [ret EXCEPT ![p] = res.ret]
               /\ pc' = [pc EXCEPT ![p] = IF res.wrote THEN "open" ELSE "done"]
       ELSE /\ ret' = [ret EXCEPT ![p] = Raise("JSONDecodeError")]
            /\ pc' = [pc EXCEPT ![p] = "done"]
            /\ UNCHANGED <<snapshot, data>>
    /\ UNCHANGED <<file, fileComplete, brokenLen, last, call, wrote, lastWriter>>

\* _write_data: open(self.json_file, 'w')
Open(p) ==
    /\ pc[p] = "open"
    /\ file' = <<>>
    /\ fileComplete' = FALSE
    /\ brokenLen' = 0
    /\ pc' = [pc EXCEPT ![p] = "dump"]
    /\ UNCHANGED <<last, call, snapshot, data, ret, wrote, lastWriter>>

\* a variant that leaves a file another thread has written since the load
DumpUnlessChanged(p) ==
    /\ pc[p] = "dump"
    /\ IF (~fileComplete /\ brokenLen = 0) \/ (fileComplete /\ file = snapshot[p])
       THEN /\ file' = data[p]
            /\ fileComplete' = TRUE
            /\ brokenLen' = 0
       ELSE UNCHANGED <<file, fileComplete, brokenLen>>
    /\ pc' = [pc EXCEPT ![p] = "done"]
    /\ wrote' = [wrote EXCEPT ![p] = TRUE]
    /\ lastWriter' = p
    /\ UNCHANGED <<last, call, snapshot, data, ret>>

\* the length of the file as it is
FileLen == IF fileComplete THEN JsonLen(file) ELSE brokenLen

\* _write_data: json.dump({'users': data}, file) and the close
Dump(p) ==
    /\ pc[p] = "dump"
    /\ IF JsonLen(data[p]) >= FileLen
       THEN /\ file' = data[p]
            /\ fileComplete' = TRUE
            /\ brokenLen' = 0
       ELSE /\ file' = <<>>
            /\ fileComplete' = FALSE
            /\ brokenLen' = FileLen
    /\ pc' = [pc EXCEPT ![p] = "done"]
    /\ wrote' = [wrote EXCEPT ![p] = TRUE]
    /\ lastWriter' = p
    /\ UNCHANGED <<last, call, snapshot, data, ret>>

NextThreads == \E p \in Procs : Begin(p) \/ Load(p) \/ Open(p) \/ Dump(p)

SpecThreads == Init /\ [][NextThreads]_vars

\* only add_user, add_movie and delete_movie are called
NextAddDelete ==
    \/ AddUser
    \/ AddMovie
    \/ DeleteMovie

SpecAddDelete == Init /\ [][NextAddDelete]_vars

(***************************************************************************)
(* Notation for the properties.                                            *)
(***************************************************************************)
HasUser(d, user_id) == UsersWith(d, str(user_id)) # {}
UserOf(d, user_id) == FirstUser(d, str(user_id))
TargetFound(d, user_id, movie_id) == Matches(d, str(user_id), int(movie_id)) # {}
Unwritten == ~last.res.wrote /\ file = last.before

(***************************************************************************)
(* C1: each successful add_movie on an existing user appends one movie     *)
(* whose id is one more than the largest id the user's list held at that   *)
(* moment (1 for an empty list).  When the call before it deleted that     *)
(* user's highest id h, the new id is at most h, and it is h again exactly *)
(* when the ids left are empty with h = 1 or have h - 1 as their largest.  *)
(***************************************************************************)
AddMovieAssignsMaxPlusOne ==
    (/\ last.op = "add_movie"
     /\ last.movie_details.Response = "True"
     /\ HasUser(last.before, last.user_id))
    => LET i == UserOf(last.before, last.user_id)
           old == last.before[i].movies
           new == file[i].movies
           newId == new[Len(new)].id
       IN /\ last.res.ret = None
          /\ new = Append(old, new[Len(new)])
          /\ \A j \in 1..Len(old) : old[j].id < newId
          /\ (newId = 1 \/ \E j \in 1..Len(old) : old[j].id = newId - 1)
          /\ (old = <<>> => newId = 1)
          /\ ((last.freed.id > 0 /\ last.freed.user_id = str(last.user_id))
                => /\ newId <= last.freed.id
                   /\ newId = last.freed.id
                         <=> \/ old = <<>> /\ last.freed.id = 1
                             \/ \E j \in 1..Len(old) : old[j].id = last.freed.id - 1)

\* C1 as stated: the new id is one more than the largest id of the list, and
\* the id freed by deleting the highest movie is the id of the next movie added
FreedIdAlwaysReused ==
    (/\ last.op = "add_movie"
     /\ last.movie_details.Response = "True"
     /\ HasUser(last.before, last.user_id))
    => LET i == UserOf(last.before, last.user_id)
           old == last.before[i].movies
           new == file[i].movies
           newId == new[Len(new)].id
       IN /\ new = Append(old, new[Len(new)])
          /\ \A j \in 1..Len(old) : old[j].id < newId
          /\ (newId = 1 \/ \E j \in 1..Len(old) : old[j].id = newId - 1)
          /\ ((last.freed.id > 0 /\ last.freed.user_id = str(last.user_id))
                => newId = last.freed.id)

\* an add_movie has just given out the id that the delete_movie before it freed
IdReusedAfterDelete ==
    /\ last.op = "add_movie"
    /\ last.movie_details.Response = "True"
    /\ HasUser(last.before, last.user_id)
    /\ last.freed.id = 2
    /\ last.freed.user_id = str(last.user_id)
    /\ LET new == file[UserOf(last.before, last.user_id)].movies
       IN Len(new) = 2 /\ new[1].id = 1 /\ new[2].id = 2

(***************************************************************************)
(* C2: a call that returns a domain error writes nothing: add_user with a  *)
(* name already present returns the duplicate-name message, add_movie      *)
(* whose lookup reports not-found returns the service's message as it is,  *)
(* and in both cases the document is what it was.                          *)
(***************************************************************************)
DomainErrorWritesNothing ==
    /\ (last.op = "add_user" /\ \E i \in 1..Len(last.before) : last.before[i].name = last.user_name)
          => last.res.ret = StrRet(ErrUserExists) /\ Unwritten
    /\ (last.op = "add_movie" /\ last.movie_details.Response # "True")
          => last.res.ret = StrRet(last.movie_details.Error) /\ Unwritten
    /\ (last.op \in {"add_user", "add_movie"} /\ last.res.ret.kind = "str") => Unwritten

\* add_user has just refused a name that the second of two users holds
DuplicateNameRefused ==
    /\ last.op = "add_user"
    /\ Len(file) = 2
    /\ file[2].name = last.user_name
    /\ last.res.ret = StrRet(ErrUserExists)

(***************************************************************************)
(* C3: update_movie on an existing movie sets the fields named in the      *)
(* update, keeps every other field of that movie, and leaves every other   *)
(* movie and every other user's record as they were.                       *)
(***************************************************************************)
UpdateMovieOverwritesOnlyNamedFields ==
    (last.op = "update_movie" /\ TargetFound(last.before, last.user_id, last.movie_id))
    => LET p == FirstMatch(last.before, str(last.user_id), int(last.movie_id))
           old == last.before[p[1]].movies[p[2]]
           new == file[p[1]].movies[p[2]]
           upd == last.updated_movie
       IN /\ last.res.ret = None
          /\ Len(file) = Len(last.before)
          /\ \A i \in 1..Len(file) : i # p[1] => file[i] = last.before[i]
          /\ file[p[1]].user_id = last.before[p[1]].user_id
          /\ file[p[1]].name = last.before[p[1]].name
          /\ Len(file[p[1]].movies) = Len(last.before[p[1]].movies)
          /\ \A j \in 1..Len(file[p[1]].movies) :
                j # p[2] => file[p[1]].movies[j] = last.before[p[1]].movies[j]
          /\ DOMAIN new = DOMAIN old \cup DOMAIN upd
          /\ \A k \in DOMAIN upd : new[k] = upd[k]
          /\ \A k \in DOMAIN old \ DOMAIN upd : new[k] = old[k]

\* an update of the rating alone has changed the second movie of a user
RatingAloneUpdated ==
    /\ last.op = "update_movie"
    /\ last.updated_movie = OnlyRating
    /\ TargetFound(last.before, last.user_id, last.movie_id)
    /\ LET p == FirstMatch(last.before, str(last.user_id), int(last.movie_id))
       IN /\ p[2] = 2
          /\ last.before[p[1]].movies[2].rating = 88
          /\ file[p[1]].movies[2].rating = 90
          /\ file[p[1]].movies[2].director = "Christopher Nolan"
          /\ file[p[1]].movies[2].year = 2010
          /\ file[p[1]].movies[1].rating = 88

(***************************************************************************)
(* C4: a mutating call whose target is not in the document returns None    *)
(* and leaves the document's content as it was (add_movie with a found     *)
(* lookup and an unknown user, update_movie and delete_movie with an       *)
(* unknown user or movie); deleting twice leaves what deleting once does.  *)
(***************************************************************************)
UnknownTargetIsNoOp ==
    /\ (last.op = "add_movie" /\ last.movie_details.Response = "True"
            /\ ~HasUser(last.before, last.user_id))
          => last.res.ret = None /\ file = last.before
    /\ (last.op = "update_movie" /\ ~TargetFound(last.before, last.user_id, last.movie_id))
          => last.res.ret = None /\ file = last.before
    /\ (last.op = "delete_movie" /\ ~TargetFound(last.before, last.user_id, last.movie_id))
          => last.res.ret = None /\ file = last.before
    /\ \A user_id \in UserIdArgs, movie_id \in MovieIdArgs :
          LET once == delete_movie(file, user_id, movie_id).data
          IN delete_movie(once, user_id, movie_id).data = once

\* delete_movie has just been repeated on a user who still holds a movie
DeleteRepeated ==
    /\ last.op = "delete_movie"
    /\ last.freed.id = int(last.movie_id)
    /\ last.freed.user_id = str(last.user_id)
    /\ HasUser(file, last.user_id)
    /\ file[UserOf(file, last.user_id)].movies # <<>>
    /\ file = last.before

(***************************************************************************)
(* C5: a user id may be passed as an int or as its decimal string: each of *)
(* get_user_movies, add_movie, get_movie, update_movie and delete_movie    *)
(* returns the same and leaves the same document either way.               *)
(***************************************************************************)
UserIdIntOrStr ==
    \A n \in 1..Cardinality(Names) + 1 :
        LET asInt == IntV(n)
            asStr == StrV(Decimal(n))
        IN /\ get_user_movies(file, asInt) = get_user_movies(file, asStr)
           /\ \A movie_details \in Lookups :
                 add_movie(file, asInt, movie_details) = add_movie(file, asStr, movie_details)
           /\ \A movie_id \in MovieIdArgs :
                 /\ get_movie(file, asInt, movie_id) = get_movie(file, asStr, movie_id)
                 /\ delete_movie(file, asInt, movie_id) = delete_movie(file, asStr, movie_id)
                 /\ \A updated_movie \in Updates :
                       update_movie(file, asInt, movie_id, updated_movie)
                          = update_movie(file, asStr, movie_id, updated_movie)

(***************************************************************************)
(* C6: no two movies in one user's list have the same id.                  *)
(***************************************************************************)
MovieIdsUniquePerUser ==
    \A i \in 1..Len(file) :
        \A j, k \in 1..Len(file[i].movies) :
            j # k => file[i].movies[j].id # file[i].movies[k].id

(***************************************************************************)
(* C7: a read of an unknown id is no error: get_user_movies for a user id  *)
(* that matches no user returns the empty list, get_movie for ids that     *)
(* match no stored movie returns None, and neither changes the document.   *)
(***************************************************************************)
ReadsOfUnknownIdsAreAbsent ==
    /\ (last.op = "get_user_movies" /\ ~HasUser(last.before, last.user_id))
          => last.res.ret = ListRet(<<>>)
    /\ (last.op = "get_movie" /\ ~TargetFound(last.before, last.user_id, last.movie_id))
          => last.res.ret = None
    /\ last.op \in {"get_user_movies", "get_movie"} => Unwritten

\* get_movie has just been asked for an id that a user with two movies lacks
UnknownMovieRead ==
    /\ last.op = "get_movie"
    /\ HasUser(file, last.user_id)
    /\ Len(file[UserOf(file, last.user_id)].movies) = 2
    /\ ~TargetFound(file, last.user_id, last.movie_id)
    /\ last.res.ret = None

(***************************************************************************)
(* C10: a POST to the add_user route ends in the form with the             *)
(* duplicate-name message when the name is taken and in the redirect when  *)
(* it is new; taking add_user's result apart as a pair never fails.        *)
(***************************************************************************)
AddUserRouteTakesPairApart ==
    (last.op = "route_add_user" /\ last.method = "POST")
    => /\ last.res.ret.kind # "raise"
       /\ (\E i \in 1..Len(last.before) : last.before[i].name = last.user_name)
             => last.res.ret = Render("add_user.html", StrRet(ErrUserExists))
       /\ (\A i \in 1..Len(last.before) : last.before[i].name # last.user_name)
             => last.res.ret = Redirect("user_movies", StrRet(last.user_name))
(***************************************************************************)
(* C8: two calls that both loaded the same document and both wrote and     *)
(* returned leave the document of the one that wrote last; of two          *)
(* add_user calls with different names, both successful, only the second   *)
(* writer's user is in the file and the first writer's is lost.            *)
(***************************************************************************)
Returned(p) == pc[p] = "done" /\ wrote[p]

SecondWriteDiscardsFirst ==
    \A p, q \in Procs :
        (/\ p # q
         /\ Returned(p) /\ Returned(q)
         /\ snapshot[p] = snapshot[q]
         /\ lastWriter = q
         /\ fileComplete)
        => /\ file = data[q]
           /\ (call[p].op = "add_user" /\ call[q].op = "add_user"
                  /\ call[p].user_name # call[q].user_name)
                 => /\ ret[p] = TupleRet(<<None, StrRet(call[p].user_name)>>)
                    /\ ret[q] = TupleRet(<<None, StrRet(call[q].user_name)>>)
                    /\ file = Append(snapshot[q],
                                     [user_id |-> StrV(Decimal(Len(snapshot[q]) + 1)),
                                      name |-> call[q].user_name,
                                      movies |-> <<>>])
                    /\ \A i \in 1..Len(file) : file[i].name # call[p].user_name

\* both add_user calls have returned success and the file holds Bob alone
FirstUserLost ==
    \E p, q \in Procs :
        /\ p # q
        /\ Returned(p) /\ Returned(q)
        /\ call[p] = [op |-> "add_user", user_name |-> "Alice"]
        /\ call[q] = [op |-> "add_user", user_name |-> "Bob"]
        /\ ret[p].kind = "tuple" /\ ret[q].kind = "tuple"
        /\ snapshot[p] = <<>> /\ snapshot[q] = <<>>
        /\ lastWriter = q
        /\ fileComplete
        /\ Len(file) = 1
        /\ file[1].name = "Bob"

(***************************************************************************)
(* C9: the file always holds one whole document: no call about to load     *)
(* finds it empty or partly written.                                       *)
(***************************************************************************)
FileAlwaysWholeDocument ==
    \A p \in Procs : pc[p] = "load" => fileComplete
====
